---- MODULE Spec2Model ----
(***************************************************************************)
(* TasmotaVersionChecker (src/tasmotaVersionChecker.ts): a polling loop    *)
(* that fetches the latest Tasmota release tag, compares it with the last  *)
(* known version and fires the 'new_tasmota_version' flow trigger.         *)
(*                                                                         *)
(* One state of the model is one state of the Node.js process between two  *)
(* event-loop callbacks.  Every action is one callback together with all   *)
(* the promise continuations it runs before control returns to the event   *)
(* loop.  Text (the state file, the release tag) is a sequence of          *)
(* one-character strings.                                                  *)
(***************************************************************************)
EXTENDS Integers, Sequences, FiniteSets

(***************************************************************************)
(* Bounds of the model.                                                    *)
(***************************************************************************)
\* check cycles started in one process lifetime
MaxCycles == 2
\* process restarts
MaxRestarts == 1
\* largest component of the versions compared exhaustively
MaxComponent == 4
\* longest text parsed exhaustively
MaxTextLen == 7

(***************************************************************************)
(* Program constants.                                                      *)
(***************************************************************************)
\* setTimeout(..., 300000)
StartupDelay == 300000
\* setInterval(..., 86400000)
Period == 86400000
\* `v${version.major}...`: Number.prototype.toString writes integers from
\* 10^21 on, the numerals of more than 21 digits, in exponent notation
ExponentFrom == 21
\* result.statusCode !== 200
StatusOk == 200
\* makeHttpsRequest({...}, 2000): the socket timeout of a request
Timeout == 2000

(***************************************************************************)
(* Version triples and text.                                               *)
(***************************************************************************)
Version(a, b, c) == [major |-> a, minor |-> b, revision |-> c]

\* {major: 0, minor: 0, revision: 0}
Sentinel == Version(0, 0, 0)

\* getLatestTasmotaVersion's `return null`
Null == Version(-1, -1, -1)

Digits == <<"0", "1", "2", "3", "4", "5", "6", "7", "8", "9">>

IsDigit(ch) == \E i \in 1..10 : Digits[i] = ch

DigitValue(ch) == (CHOOSE i \in 1..10 : Digits[i] = ch) - 1

\* Number.prototype.toString of a non-negative integer inside a template literal
RECURSIVE NumberToString(_)
NumberToString(n) ==
    IF n < 10 THEN <<Digits[n + 1]>>
    ELSE NumberToString(n \div 10) \o <<Digits[(n % 10) + 1]>>

\* Number(text) of a text of decimal digits
RECURSIVE ToNumber(_)
ToNumber(t) == IF Len(t) = 0 THEN 0
               ELSE 10 * ToNumber(SubSeq(t, 1, Len(t) - 1)) + DigitValue(t[Len(t)])

\* `v${version.major}.${version.minor}.${version.revision}`
FormatVersion(v) ==
    <<"v">> \o NumberToString(v.major) \o <<".">> \o NumberToString(v.minor)
            \o <<".">> \o NumberToString(v.revision)

Dots(t) == {i \in 1..Len(t) : t[i] = "."}

\* MatchesPattern without the literal "v" after the ^ anchor
MatchesPatternAnyPrefix(t) ==
    /\ Len(t) >= 6
    /\ Cardinality(Dots(t)) = 2
    /\ \A i \in 2..Len(t) : i \in Dots(t) \/ IsDigit(t[i])
    /\ LET d1 == CHOOSE i \in Dots(t) : \A j \in Dots(t) : i <= j
           d2 == CHOOSE i \in Dots(t) : \A j \in Dots(t) : i >= j
       IN  d1 > 2 /\ d2 > d1 + 1 /\ d2 < Len(t)

\* /^v(?<major>\d+)\.(?<minor>\d+)\.(?<revision>\d+)$/
MatchesPattern(t) ==
    /\ Len(t) >= 6
    /\ t[1] = "v"
    /\ Cardinality(Dots(t)) = 2
    /\ \A i \in 2..Len(t) : i \in Dots(t) \/ IsDigit(t[i])
    /\ LET d1 == CHOOSE i \in Dots(t) : \A j \in Dots(t) : i <= j
           d2 == CHOOSE i \in Dots(t) : \A j \in Dots(t) : i >= j
       IN  d1 > 2 /\ d2 > d1 + 1 /\ d2 < Len(t)

parseVersionString(t) ==
    IF ~MatchesPattern(t) THEN Sentinel
    ELSE LET d1 == CHOOSE i \in Dots(t) : \A j \in Dots(t) : i <= j
             d2 == CHOOSE i \in Dots(t) : \A j \in Dots(t) : i >= j
         IN  Version(ToNumber(SubSeq(t, 2, d1 - 1)),
                     ToNumber(SubSeq(t, d1 + 1, d2 - 1)),
                     ToNumber(SubSeq(t, d2 + 1, Len(t))))

\* lexicographic order on (major, minor, revision), used by the properties
Less(a, b) ==
    \/ a.major < b.major
    \/ a.major = b.major /\ a.minor < b.minor
    \/ a.major = b.major /\ a.minor = b.minor /\ a.revision < b.revision

\* updateAvailable with the revision comparison left out
updateAvailableNoRevision(last, new) ==
    \/ last.major < new.major
    \/ (last.major = new.major) /\ (last.minor < new.minor)

\* updateAvailable with <= in place of < on the revision
updateAvailableOrEqual(last, new) ==
    \/ last.major < new.major
    \/ (last.major = new.major) /\ (last.minor < new.minor)
    \/ (last.major = new.major) /\ (last.minor = new.minor)
           /\ (last.revision <= new.revision)

\* let updateAvailable = ... (checkTasmotaReleases)
updateAvailable(last, new) ==
    \/ last.major < new.major
    \/ (last.major = new.major) /\ (last.minor < new.minor)
    \/ (last.major = new.major) /\ (last.minor = new.minor)
           /\ (last.revision < new.revision)

(***************************************************************************)
(* The environment: the state file and the release endpoint.               *)
(***************************************************************************)
NoFile == [exists |-> FALSE, text |-> <<>>]

FileWith(t) == [exists |-> TRUE, text |-> t]

\* tag_name values the release endpoint may publish; the last one does not
\* match the version pattern
RemoteTags == {FormatVersion(Version(0, 9, 9)), FormatVersion(Version(1, 0, 0)),
               FormatVersion(Version(1, 0, 1)), <<"1", ".", "0", ".", "1">>}

\* state files a process may find when it first starts
InitialFiles == {NoFile, FileWith(FormatVersion(Version(1, 0, 0)))}

\* res.statusCode of a response
StatusCodes == {StatusOk, 403}

\* response bodies: not JSON, JSON without tag_name, JSON with tag_name
Bodies == {[kind |-> "notJson", tag |-> <<>>], [kind |-> "noTag", tag |-> <<>>]}
              \cup {[kind |-> "release", tag |-> t] : t \in RemoteTags}

VARIABLES
    file,                 \* content of /userdata/tasmota.ver
    lastTasmotaVersion,   \* this.lastTasmotaVersion
    startupTimer,         \* TRUE while the constructor's setTimeout is pending
    intervals,            \* number of armed setInterval timers
    nextTick,             \* time at which the interval timer fires next
    clock,                \* time (ms since process start) of the latest timer callback
    cycles,               \* the checkTasmotaReleases() calls of this process, in start order
    triggered,            \* calls of tasmotaUpdateTrigger.trigger by this process, in call order
    noVersionFile,        \* TRUE iff this process logged 'No version file exists!'
    unsaved,              \* the latest update whose write failed with no write since, or NoUpdate
    run                   \* number of restarts of the process so far

vars == <<file, lastTasmotaVersion, startupTimer, intervals, nextTick, clock,
          cycles, triggered, noVersionFile, unsaved, run>>

\* value of unsaved when the latest write, if any, succeeded
NoUpdate == [version |-> Null, run |-> 0]

\* fs.existsSync / fs.readFileSync / parseVersionString
loadTasmotaVersionFromFile(f) ==
    IF ~f.exists THEN Sentinel ELSE parseVersionString(f.text)

\* state of the process when the constructor returns
Constructed(f) ==
    /\ lastTasmotaVersion' = loadTasmotaVersionFromFile(f)
    /\ startupTimer' = TRUE
    /\ intervals' = 0
    /\ nextTick' = 0
    /\ clock' = 0
    /\ cycles' = <<>>
    /\ triggered' = <<>>
    /\ noVersionFile' = ~f.exists

Init ==
    /\ file \in InitialFiles
    /\ lastTasmotaVersion = loadTasmotaVersionFromFile(file)
    /\ startupTimer = TRUE
    /\ intervals = 0
    /\ nextTick = 0
    /\ clock = 0
    /\ cycles = <<>>
    /\ triggered = <<>>
    /\ noVersionFile = ~file.exists
    /\ unsaved = NoUpdate
    /\ run = 0

(***************************************************************************)
(* makeHttpsRequest: the request of one check cycle.                       *)
(*   pc = "sent"       request written, no response yet                    *)
(*   pc = "receiving"  the response callback ran; 'data' chunks arrive     *)
(*   pc = "destroyed"  request destroyed after the response began: neither  *)
(*                     res 'end' nor request 'error' is emitted any more,  *)
(*                     so the promise stays pending                        *)
(*   pc = "trigger"    suspended in `await this.tasmotaUpdateTrigger...`   *)
(*   pc = "returned"   checkTasmotaReleases() fulfilled                    *)
(*   pc = "rejected"   checkTasmotaReleases() rejected; `.then()` attaches *)
(*                     no rejection handler, so the rejection is unhandled *)
(***************************************************************************)
InFlight == {"sent", "receiving"}

Suspended == {"sent", "receiving", "destroyed", "trigger"}

\* this.app.log(`Checking tasmota releases...`); await this.getLatestTasmotaVersion()
NewCycle(now) ==
    [pc |-> "sent", statusCode |-> 0, newVersion |-> Null, oldVersion |-> Null,
     startedAt |-> now, log |-> <<"checking">>, saved |-> "none"]

\* one call of checkTasmotaReleases() up to its first await
checkTasmotaReleases(now) == cycles' = Append(cycles, NewCycle(now))

\* getLatestTasmotaVersion after makeHttpsRequest rejected: .catch logs, result
\* is undefined, app.error, return null; checkTasmotaReleases then does nothing
AfterRejection(c) ==
    [c EXCEPT !.pc = "returned", !.statusCode = 0,
              !.log = @ \o <<"requestError", "fetchError">>]

\* a call of tasmotaUpdateTrigger.trigger({new_*, old_*})
TriggerCall(c, new, old) == [cycle |-> c, new |-> new, old |-> old]

\* fs.writeFileSync(file, text): it may succeed; it may throw before the file is
\* opened (content kept); it may throw after the file was opened with flag 'w',
\* which truncates it, and before text was written (file left empty)
WriteOutcomes(f, text) ==
    {[file |-> FileWith(text), threw |-> FALSE],
     [file |-> f, threw |-> TRUE],
     [file |-> FileWith(<<>>), threw |-> TRUE]}

\* saveTasmotaVersion(version): the outcomes of its writeFileSync
saveTasmotaVersion(version) == WriteOutcomes(file, FormatVersion(version))

\* SaveVersion without the try/catch of saveTasmotaVersion: a failed write
\* throws out of checkTasmotaReleases before lastTasmotaVersion is assigned
SaveVersionNoCatch(i, version, entries) ==
    \E w \in saveTasmotaVersion(version) :
        /\ file' = w.file
        /\ unsaved' = IF w.threw THEN [version |-> version, run |-> run]
                      ELSE NoUpdate
        /\ lastTasmotaVersion' = IF w.threw THEN lastTasmotaVersion ELSE version
        /\ cycles' = [cycles EXCEPT ![i] =
              [@ EXCEPT !.pc = IF w.threw THEN "rejected" ELSE "returned",
                        !.newVersion = version,
                        !.saved = IF w.threw THEN "failed" ELSE "written",
                        !.log = @ \o entries]]

\* SaveVersion writing this.lastTasmotaVersion, the old version, to the file
SaveVersionStale(i, version, entries) ==
    \E w \in saveTasmotaVersion(lastTasmotaVersion) :
        /\ file' = w.file
        /\ unsaved' = IF w.threw THEN [version |-> version, run |-> run]
                      ELSE NoUpdate
        /\ lastTasmotaVersion' = version
        /\ cycles' = [cycles EXCEPT ![i] =
              [@ EXCEPT !.pc = "returned", !.newVersion = version,
                        !.saved = IF w.threw THEN "failed" ELSE "written",
                        !.log = @ \o entries
                                  \o (IF w.threw THEN <<"writeError">> ELSE <<>>)]]

\* if (saveVersion) { this.saveTasmotaVersion(newVersion); this.lastTasmotaVersion
\* = newVersion; }, where saveTasmotaVersion catches and logs a failed write;
\* entries are the log lines written before the save
SaveVersion(i, version, entries) ==
    \E w \in saveTasmotaVersion(version) :
        /\ file' = w.file
        /\ unsaved' = IF w.threw THEN [version |-> version, run |-> run]
                      ELSE NoUpdate
        /\ lastTasmotaVersion' = version
        /\ cycles' = [cycles EXCEPT ![i] =
              [@ EXCEPT !.pc = "returned", !.newVersion = version,
                        !.saved = IF w.threw THEN "failed" ELSE "written",
                        !.log = @ \o entries
                                  \o (IF w.threw THEN <<"writeError">> ELSE <<>>)]]

\* getLatestTasmotaVersion after makeHttpsRequest resolved with (status, body),
\* and checkTasmotaReleases up to `await this.tasmotaUpdateTrigger.trigger`
AfterResponse(i, status, body) ==
    LET c == cycles[i]
        version == parseVersionString(body.tag)
    IN  IF status # StatusOk
        THEN /\ cycles' = [cycles EXCEPT ![i] =
                    [c EXCEPT !.pc = "returned", !.log = @ \o <<"fetchError">>]]
             /\ UNCHANGED <<file, lastTasmotaVersion, triggered, unsaved>>
        ELSE IF body.kind # "release"
        THEN \* JSON.parse throws, or info.tag_name is undefined and .match throws
             /\ cycles' = [cycles EXCEPT ![i] = [c EXCEPT !.pc = "rejected"]]
             /\ UNCHANGED <<file, lastTasmotaVersion, triggered, unsaved>>
        ELSE IF lastTasmotaVersion = Null
        THEN \* (no saved version found): saveVersion = true without a trigger
             /\ SaveVersion(i, version, <<"latest", "noSavedVersion">>)
             /\ UNCHANGED triggered
        ELSE IF updateAvailable(lastTasmotaVersion, version)
        THEN /\ cycles' = [cycles EXCEPT ![i] =
                    [c EXCEPT !.pc = "trigger", !.newVersion = version,
                              !.oldVersion = lastTasmotaVersion,
                              !.log = @ \o <<"latest">>]]
             /\ triggered' = Append(triggered,
                                    TriggerCall(i, version, lastTasmotaVersion))
             /\ UNCHANGED <<file, lastTasmotaVersion, unsaved>>
        ELSE /\ cycles' = [cycles EXCEPT ![i] =
                    [c EXCEPT !.pc = "returned", !.newVersion = version,
                              !.log = @ \o <<"latest">>]]
             /\ UNCHANGED <<file, lastTasmotaVersion, triggered, unsaved>>

(***************************************************************************)
(* Actions.                                                                *)
(***************************************************************************)
\* StartupTimeout without the immediate check: the callback only arms the
\* interval, so the first cycle starts a full period later
StartupTimeoutNoCheck ==
    /\ startupTimer
    /\ startupTimer' = FALSE
    /\ clock' = clock + StartupDelay
    /\ cycles' = cycles
    /\ intervals' = intervals + 1
    /\ nextTick' = clock' + Period
    /\ UNCHANGED <<file, lastTasmotaVersion, triggered, noVersionFile, unsaved, run>>

\* the setTimeout callback of the constructor
StartupTimeout ==
    /\ startupTimer
    /\ startupTimer' = FALSE
    /\ clock' = clock + StartupDelay
    /\ checkTasmotaReleases(clock')
    /\ intervals' = intervals + 1
    /\ nextTick' = clock' + Period
    /\ UNCHANGED <<file, lastTasmotaVersion, triggered, noVersionFile, unsaved, run>>

\* the setInterval callback
IntervalTick ==
    /\ intervals > 0
    /\ Len(cycles) < MaxCycles
    \* timers fire in deadline order: a request still without a response has
    \* timed out or failed before a tick later than its socket timeout
    /\ \A i \in DOMAIN cycles :
          cycles[i].pc = "sent" => nextTick < cycles[i].startedAt + Timeout
    /\ clock' = nextTick
    /\ nextTick' = nextTick + Period
    /\ checkTasmotaReleases(clock')
    /\ UNCHANGED <<file, lastTasmotaVersion, startupTimer, intervals, triggered,
                   noVersionFile, unsaved, run>>

\* https.request's response callback: res.on('data'), res.once('end') registered
Response(i, status) ==
    /\ cycles[i].pc = "sent"
    /\ cycles' = [cycles EXCEPT ![i].pc = "receiving", ![i].statusCode = status]
    /\ UNCHANGED <<file, lastTasmotaVersion, startupTimer, intervals, nextTick,
                   clock, triggered, noVersionFile, unsaved, run>>

\* res 'end': resolve({statusCode, headers, body: resBody})
ResponseEnd(i, body) ==
    /\ cycles[i].pc = "receiving"
    /\ AfterResponse(i, cycles[i].statusCode, body)
    /\ UNCHANGED <<startupTimer, intervals, nextTick, clock, noVersionFile, run>>

\* request 'error': reject(e)
RequestError(i) ==
    /\ cycles[i].pc \in InFlight
    /\ cycles' = [cycles EXCEPT ![i] = AfterRejection(cycles[i])]
    /\ UNCHANGED <<file, lastTasmotaVersion, startupTimer, intervals, nextTick,
                   clock, triggered, noVersionFile, unsaved, run>>

\* request.setTimeout callback: request.destroy().  Before a response the
\* request emits 'error' (socket hang up); after the response began only the
\* response is aborted, for which no listener is registered
RequestTimeout(i) ==
    /\ cycles[i].pc \in InFlight
    /\ cycles' = [cycles EXCEPT ![i] =
            IF cycles[i].pc = "sent" THEN AfterRejection(cycles[i])
            ELSE [cycles[i] EXCEPT !.pc = "destroyed"]]
    /\ UNCHANGED <<file, lastTasmotaVersion, startupTimer, intervals, nextTick,
                   clock, triggered, noVersionFile, unsaved, run>>

\* trigger(...) fulfilled: saveVersion = true, app.log(`New Tasmota version
\* available ...`), then the save
TriggerResolved(i) ==
    /\ cycles[i].pc = "trigger"
    /\ SaveVersion(i, cycles[i].newVersion, <<"newVersion">>)
    /\ UNCHANGED <<startupTimer, intervals, nextTick, clock, triggered,
                   noVersionFile, run>>

\* TriggerRejected with the save and the assignment placed in front of the
\* await: they are not undone when the notifier fails
TriggerRejectedAfterSave(i) ==
    /\ cycles[i].pc = "trigger"
    /\ \E w \in saveTasmotaVersion(cycles[i].newVersion) :
          /\ file' = w.file
          /\ unsaved' = IF w.threw THEN [version |-> cycles[i].newVersion, run |-> run]
                        ELSE NoUpdate
    /\ lastTasmotaVersion' = cycles[i].newVersion
    /\ cycles' = [cycles EXCEPT ![i].pc = "rejected"]
    /\ UNCHANGED <<startupTimer, intervals, nextTick, clock, triggered,
                   noVersionFile, run>>

\* trigger(...) rejected: the await throws out of checkTasmotaReleases
TriggerRejected(i) ==
    /\ cycles[i].pc = "trigger"
    /\ cycles' = [cycles EXCEPT ![i].pc = "rejected"]
    /\ UNCHANGED <<file, lastTasmotaVersion, startupTimer, intervals, nextTick,
                   clock, triggered, noVersionFile, unsaved, run>>

\* the process ends (crash, stop, device reboot) and the app is started again:
\* the constructor runs against the file as it was left
Restart ==
    /\ run < MaxRestarts
    /\ run' = run + 1
    /\ Constructed(file)
    /\ UNCHANGED <<file, unsaved>>

Next ==
    \/ StartupTimeout
    \/ IntervalTick
    \/ \E i \in 1..Len(cycles), status \in StatusCodes : Response(i, status)
    \/ \E i \in 1..Len(cycles), body \in Bodies : ResponseEnd(i, body)
    \/ \E i \in 1..Len(cycles) : RequestError(i)
    \/ \E i \in 1..Len(cycles) : RequestTimeout(i)
    \/ \E i \in 1..Len(cycles) : TriggerResolved(i)
    \/ \E i \in 1..Len(cycles) : TriggerRejected(i)
    \/ Restart

Spec == Init /\ [][Next]_vars

(***************************************************************************)
(* The comparison of lines 97-99 over every pair of versions: a process    *)
(* that loaded any version fetches any version.                            *)
(***************************************************************************)
Triples == {Version(a, b, c) : a, b, c \in 0..MaxComponent}

InitCompare ==
    /\ file \in {FileWith(FormatVersion(v)) : v \in Triples}
    /\ lastTasmotaVersion = loadTasmotaVersionFromFile(file)
    /\ startupTimer = TRUE
    /\ intervals = 0
    /\ nextTick = 0
    /\ clock = 0
    /\ cycles = <<>>
    /\ triggered = <<>>
    /\ noVersionFile = FALSE
    /\ unsaved = NoUpdate
    /\ run = 0

NextCompare ==
    \/ StartupTimeout
    \/ \E i \in 1..Len(cycles) : Response(i, StatusOk)
    \/ \E i \in 1..Len(cycles), v \in Triples :
          ResponseEnd(i, [kind |-> "release", tag |-> FormatVersion(v)])

CompareSpec == InitCompare /\ [][NextCompare]_vars

(***************************************************************************)
(* parseVersionString over every text of up to MaxTextLen characters: a    *)
(* process is constructed, and constructed again, over a state file of any *)
(* content.  "x" stands for every character that is neither "v", "." nor a *)
(* digit.                                                                  *)
(***************************************************************************)
Alphabet == {"v", ".", "1", "x"}

Texts == UNION {[1..n -> Alphabet] : n \in 0..MaxTextLen}

InitLoad ==
    /\ file \in {FileWith(t) : t \in Texts}
    /\ lastTasmotaVersion = loadTasmotaVersionFromFile(file)
    /\ startupTimer = TRUE
    /\ intervals = 0
    /\ nextTick = 0
    /\ clock = 0
    /\ cycles = <<>>
    /\ triggered = <<>>
    /\ noVersionFile = FALSE
    /\ unsaved = NoUpdate
    /\ run = 0

NextLoad == Restart

LoadSpec == InitLoad /\ [][NextLoad]_vars

(***************************************************************************)
(* Saving and loading versions whose components are beyond the integers of *)
(* the model checker.  A number is held as its decimal numeral, a text of  *)
(* digits without leading zeros; the numerals used are exact doubles.      *)
(***************************************************************************)
\* Number(text) of a text of decimal digits, as a numeral
RECURSIVE Numeral(_)
Numeral(t) == IF Len(t) > 1 /\ t[1] = "0" THEN Numeral(Tail(t)) ELSE t

RECURSIVE DropTrailingZeros(_)
DropTrailingZeros(t) ==
    IF Len(t) > 1 /\ t[Len(t)] = "0" THEN DropTrailingZeros(SubSeq(t, 1, Len(t) - 1))
    ELSE t

\* exponent notation of the numeral n: d[.ddd]e+x
Exponential(n) ==
    LET m == DropTrailingZeros(n)
    IN  <<m[1]>> \o (IF Len(m) > 1 THEN <<".">> \o Tail(m) ELSE <<>>)
                \o <<"e", "+">> \o NumberToString(Len(n) - 1)

\* Number.prototype.toString of the numeral n inside a template literal
NumeralToString(n) == IF Len(n) <= ExponentFrom THEN n ELSE Exponential(n)

\* `v${version.major}.${version.minor}.${version.revision}`
FormatNumerals(v) ==
    <<"v">> \o NumeralToString(v.major) \o <<".">> \o NumeralToString(v.minor)
            \o <<".">> \o NumeralToString(v.revision)

\* parseVersionString with the components kept as numerals
ParseNumerals(t) ==
    IF ~MatchesPattern(t) THEN Version(<<"0">>, <<"0">>, <<"0">>)
    ELSE LET d1 == CHOOSE i \in Dots(t) : \A j \in Dots(t) : i <= j
             d2 == CHOOSE i \in Dots(t) : \A j \in Dots(t) : i >= j
         IN  Version(Numeral(SubSeq(t, 2, d1 - 1)),
                     Numeral(SubSeq(t, d1 + 1, d2 - 1)),
                     Numeral(SubSeq(t, d2 + 1, Len(t))))

\* the numeral of 10^k
PowerOfTen(k) == <<"1">> \o [i \in 1..k |-> "0"]

\* 0, 7, 12, 10^20 and 10^21
Numerals == {<<"0">>, <<"7">>, <<"1", "2">>,
             PowerOfTen(ExponentFrom - 1), PowerOfTen(ExponentFrom)}

\* a process that has just found this.lastTasmotaVersion to be new
InitNumerals ==
    /\ file = NoFile
    /\ lastTasmotaVersion \in {Version(a, b, c) : a, b, c \in Numerals}
    /\ startupTimer = FALSE
    /\ intervals = 1
    /\ nextTick = StartupDelay + Period
    /\ clock = StartupDelay
    /\ cycles = <<>>
    /\ triggered = <<>>
    /\ noVersionFile = TRUE
    /\ unsaved = NoUpdate
    /\ run = 0

\* saveTasmotaVersion(this.lastTasmotaVersion), the write succeeding
SaveNumerals ==
    /\ ~file.exists
    /\ file' = FileWith(FormatNumerals(lastTasmotaVersion))
    /\ UNCHANGED <<lastTasmotaVersion, startupTimer, intervals, nextTick, clock,
                   cycles, triggered, noVersionFile, unsaved, run>>

\* the next process: the constructor's loadTasmotaVersionFromFile
LoadNumerals ==
    /\ file.exists
    /\ run < MaxRestarts
    /\ run' = run + 1
    /\ lastTasmotaVersion' = ParseNumerals(file.text)
    /\ startupTimer' = TRUE
    /\ intervals' = 0
    /\ nextTick' = 0
    /\ clock' = 0
    /\ noVersionFile' = FALSE
    /\ UNCHANGED <<file, cycles, triggered, unsaved>>

NextNumerals == SaveNumerals \/ LoadNumerals

NumeralSpec == InitNumerals /\ [][NextNumerals]_vars

(***************************************************************************)
(* Vocabulary of the properties.                                           *)
(***************************************************************************)
Ids == DOMAIN cycles

Logged(c, entry) == \E k \in DOMAIN c.log : c.log[k] = entry

\* indices in triggered of the notifier calls made by cycle i
Calls(i) == {k \in DOMAIN triggered : triggered[k].cycle = i}

\* the step in which cycle i's request resolves with status 200 and a body
\* holding a release tag, so that getLatestTasmotaVersion returns a version
FetchSucceeds(i) ==
    /\ i \in Ids /\ i \in DOMAIN cycles'
    /\ cycles[i].pc = "receiving"
    /\ cycles'[i].newVersion # Null

\* the step in which cycle i stops waiting for the notifier
TriggerSettles(i) ==
    /\ i \in Ids /\ i \in DOMAIN cycles'
    /\ cycles[i].pc = "trigger"
    /\ cycles'[i].pc # "trigger"

\* no cycle of this process has had a successful fetch yet
NoFetchYet == \A j \in Ids : cycles[j].newVersion = Null

(***************************************************************************)
(* C1: without a state file at process start, load returns (0,0,0) and the *)
(* first successful fetch of the process does not call the notifier: the   *)
(* fetched version only becomes the in-memory (and persisted) baseline.    *)
(***************************************************************************)
C1_FirstFetchIsBaseline ==
    /\ [](noVersionFile /\ startupTimer => lastTasmotaVersion = Sentinel)
    /\ [][\A i \in Ids :
            noVersionFile /\ NoFetchYet /\ FetchSucceeds(i)
                => /\ triggered' = triggered
                   /\ lastTasmotaVersion' = cycles'[i].newVersion]_vars

(***************************************************************************)
(* C2: a cycle that fetches n strictly greater than the stored version s   *)
(* calls the notifier exactly once with old = s and new = n, and when the  *)
(* cycle ends the state file and the in-memory version both equal n.       *)
(***************************************************************************)
\* the notifier is called once, at the comparison, with old = s and new = n
NotifiesOnce ==
    /\ [][\A i \in Ids :
            FetchSucceeds(i) /\ Less(lastTasmotaVersion, cycles'[i].newVersion)
                => /\ cycles'[i].pc = "trigger"
                   /\ triggered' = Append(triggered,
                          [cycle |-> i, new |-> cycles'[i].newVersion,
                           old |-> lastTasmotaVersion])]_vars
    /\ [][\A i \in Ids : TriggerSettles(i) => triggered' = triggered]_vars
    /\ [](\A i \in Ids : cycles[i].oldVersion # Null => Cardinality(Calls(i)) = 1)

\* the claim as stated: every such cycle ends with file and memory equal to n
C2_UpdateAlwaysStored ==
    /\ NotifiesOnce
    /\ [][\A i \in Ids :
            TriggerSettles(i)
                => /\ lastTasmotaVersion' = cycles[i].newVersion
                   /\ file' = FileWith(FormatVersion(cycles[i].newVersion))]_vars

\* C2 as amended: the in-memory version equals n when the notifier call
\* returned, and the file equals n when, in addition, the write succeeded
C2_UpdateStoredUnlessFault ==
    /\ NotifiesOnce
    /\ [][\A i \in Ids :
            TriggerSettles(i) /\ cycles'[i].pc = "returned"
                => /\ lastTasmotaVersion' = cycles[i].newVersion
                   /\ cycles'[i].saved = "written"
                          => file' = FileWith(FormatVersion(cycles[i].newVersion))]_vars

\* the spec's instance: stored (1,0,0), fetched (1,0,1), one call, both stored
C2_Witness ==
    \E i \in Ids :
        /\ cycles[i].pc = "returned"
        /\ cycles[i].oldVersion = Version(1, 0, 0)
        /\ cycles[i].newVersion = Version(1, 0, 1)
        /\ Cardinality(Calls(i)) = 1
        /\ lastTasmotaVersion = Version(1, 0, 1)
        /\ file = FileWith(FormatVersion(Version(1, 0, 1)))

(***************************************************************************)
(* C3: a cycle that fetches n equal to or less than the stored version s   *)
(* calls the notifier zero times and leaves the state file and the         *)
(* in-memory version unchanged.  (s is this.lastTasmotaVersion when the    *)
(* cycle compares.)                                                        *)
(***************************************************************************)
C3_NoUpdateNoEffect ==
    /\ [][\A i \in Ids :
            FetchSucceeds(i) /\ ~Less(lastTasmotaVersion, cycles'[i].newVersion)
                => /\ cycles'[i].pc = "returned"
                   /\ triggered' = triggered
                   /\ file' = file
                   /\ lastTasmotaVersion' = lastTasmotaVersion]_vars
    /\ [](\A i \in Ids :
            cycles[i].newVersion # Null /\ cycles[i].oldVersion = Null
                => Calls(i) = {} /\ cycles[i].saved = "none")

\* stored (1,0,0), fetched (0,9,9): the cycle returned, nothing happened
C3_Witness ==
    \E i \in Ids :
        /\ cycles[i].pc = "returned"
        /\ cycles[i].newVersion = Version(0, 9, 9)
        /\ cycles[i].oldVersion = Null
        /\ lastTasmotaVersion = Version(1, 0, 0)
        /\ file = FileWith(FormatVersion(Version(1, 0, 0)))
        /\ triggered = <<>>

\* the same with fetched (1,0,0), equal to the stored version
C3_WitnessEqual ==
    \E i \in Ids :
        /\ cycles[i].pc = "returned"
        /\ cycles[i].newVersion = Version(1, 0, 0)
        /\ cycles[i].oldVersion = Null
        /\ lastTasmotaVersion = Version(1, 0, 0)
        /\ triggered = <<>>

(***************************************************************************)
(* C4: a cycle whose fetch fails (transport error, timeout, non-200        *)
(* status) makes no notifier call and no write, logs an error and leaves   *)
(* the in-memory version and the state file unchanged.                     *)
(***************************************************************************)
\* the step in which cycle i's request fails: it errors, it is destroyed by the
\* timeout, or it resolves with a status other than 200
FetchFails(i) ==
    /\ i \in Ids /\ i \in DOMAIN cycles'
    /\ cycles[i].pc \in InFlight
    /\ cycles'[i].pc \notin InFlight
    /\ cycles'[i].newVersion = Null
    /\ ~(cycles[i].pc = "receiving" /\ cycles[i].statusCode = StatusOk
             /\ cycles'[i].pc = "rejected")

C4_FailedFetchIsLoggedNoOp ==
    [][\A i \in Ids :
          FetchFails(i)
              => /\ cycles'[i].pc = "returned"
                 /\ Logged(cycles'[i], "fetchError")
                 /\ cycles'[i].saved = "none"
                 /\ triggered' = triggered
                 /\ file' = file
                 /\ lastTasmotaVersion' = lastTasmotaVersion]_vars

(***************************************************************************)
(* C5: at most one check cycle is active at any time.                      *)
(***************************************************************************)
Active == {i \in Ids : cycles[i].pc \in Suspended}

C5_NoOverlap == Cardinality(Active) <= 1

(***************************************************************************)
(* C6: no error propagates out of the polling loop: no check cycle ends    *)
(* in an unhandled rejection.                                              *)
(***************************************************************************)
C6_NoUnhandledRejection == \A i \in Ids : cycles[i].pc # "rejected"

(***************************************************************************)
(* C7: when a cycle confirms a newer version and the write of the state    *)
(* file fails, the failure is caught and logged and does not propagate;    *)
(* the notifier has been called, the in-memory version advances to the new *)
(* version, and the state file keeps its previous content.                 *)
(***************************************************************************)
\* the step in which cycle i's write of the state file fails
WriteFails(i) ==
    /\ i \in Ids /\ i \in DOMAIN cycles'
    /\ cycles[i].saved = "none"
    /\ cycles'[i].saved = "failed"

\* caught, logged, not propagated; notifier called; memory advanced
FailedWriteIsContained(i) ==
    /\ cycles'[i].pc = "returned"
    /\ Logged(cycles'[i], "writeError")
    /\ \E k \in DOMAIN triggered :
          triggered[k] = [cycle |-> i, new |-> cycles[i].newVersion,
                          old |-> cycles[i].oldVersion]
    /\ triggered' = triggered
    /\ lastTasmotaVersion' = cycles[i].newVersion

C8_RestartRedetects ==
    /\ [][run' # run
            => /\ lastTasmotaVersion' = loadTasmotaVersionFromFile(file)
               /\ file' = file
               /\ startupTimer' /\ intervals' = 0 /\ cycles' = <<>>
               /\ clock' = 0]_vars
    /\ [][\A i \in Ids :
            /\ unsaved # NoUpdate /\ unsaved.run < run
            /\ NoFetchYet /\ FetchSucceeds(i)
            /\ cycles'[i].newVersion = unsaved.version
            => triggered' = Append(triggered,
                   [cycle |-> i, new |-> unsaved.version,
                    old |-> lastTasmotaVersion])]_vars

(***************************************************************************)
(* C9: every fetch settles: a timeout on an in-flight request, before or   *)
(* after response headers, aborts it and reaches the rejection path, so    *)
(* the fetch returns null and the check cycle completes.                   *)
(***************************************************************************)
C9_TimeoutSettlesFetch ==
    /\ [](\A i \in Ids : cycles[i].pc # "destroyed")
    /\ [][\A i \in Ids :
            /\ i \in DOMAIN cycles'
            /\ cycles[i].pc \in InFlight
            /\ cycles'[i].pc \notin InFlight
            /\ cycles'[i].newVersion = Null
            /\ ~Logged(cycles'[i], "fetchError")
            => cycles'[i].pc = "rejected"]_vars

(***************************************************************************)
(* C10: no check cycle starts before the startup delay has elapsed; when   *)
(* it elapses exactly one cycle is started and the repeating timer is      *)
(* armed exactly once; from then on every tick starts one cycle, and there *)
(* is no terminal state.                                                   *)
(***************************************************************************)
\* cycle i was started by the timeout (i = 1) or by tick i - 1
StartedOnSchedule(i) == cycles[i].startedAt = StartupDelay + (i - 1) * Period

NotRejected(e) == cycles[e.cycle].pc # "rejected"

\* the notifier calls of this process that did not fail, in call order
Delivered == SelectSeq(triggered, NotRejected)

C11_OneCallPerUpdate ==
    \A k, l \in DOMAIN Delivered :
        k # l => Delivered[k].new # Delivered[l].new

(***************************************************************************)
(* C15: in a cycle that finds a newer version the file is written and the  *)
(* in-memory version changed only after the notifier call for that version *)
(* has returned; if the call fails neither is changed; the file is never   *)
(* written in any other situation and never deleted.                       *)
(***************************************************************************)
\* the step in which cycle i, whose notifier call for its newVersion was made
\* earlier, sees that call return and saves
SavesAfterNotify(i) ==
    /\ TriggerSettles(i)
    /\ cycles'[i].pc = "returned"
    /\ cycles'[i].saved # "none"
    /\ \E k \in DOMAIN triggered :
          triggered[k].cycle = i /\ triggered[k].new = cycles[i].newVersion
    /\ lastTasmotaVersion' = cycles[i].newVersion
    /\ file' \in {w.file : w \in WriteOutcomes(file, FormatVersion(cycles[i].newVersion))}

C15_NotifyThenPersist ==
    /\ [][(file' # file \/ (lastTasmotaVersion' # lastTasmotaVersion /\ run' = run))
            => \E i \in Ids : SavesAfterNotify(i)]_vars
    /\ [][\A i \in Ids :
            TriggerSettles(i) /\ cycles'[i].pc = "rejected"
                => file' = file /\ lastTasmotaVersion' = lastTasmotaVersion]_vars
    /\ [][\A i \in Ids :
            i \in DOMAIN cycles' /\ cycles[i].saved = "none" /\ cycles'[i].saved # "none"
                => SavesAfterNotify(i)]_vars
    /\ [][file.exists => file'.exists]_vars

\* a cycle has notified, then written the file and advanced the memory: the
\* call for (1,0,1) is on record and both hold (1,0,1)
C15_Witness ==
    \E i \in Ids :
        /\ cycles[i].saved = "written"
        /\ cycles[i].log = <<"checking", "latest", "newVersion">>
        /\ \E k \in DOMAIN triggered :
              triggered[k].cycle = i /\ triggered[k].new = Version(1, 0, 1)
        /\ file = FileWith(FormatVersion(Version(1, 0, 1)))
        /\ lastTasmotaVersion = Version(1, 0, 1)

\* a cycle whose notifier call failed: nothing was written
C15_WitnessRejected ==
    \E i \in Ids :
        /\ cycles[i].pc = "rejected"
        /\ cycles[i].oldVersion # Null
        /\ cycles[i].saved = "none"
        /\ lastTasmotaVersion = cycles[i].oldVersion

(***************************************************************************)
(* C16: a 200 response whose tag does not match the version pattern makes  *)
(* the fetch return the sentinel (0,0,0), not null: the cycle is not       *)
(* skipped, it reaches the comparison, the sentinel is never newer than    *)
(* the current version, so nothing is notified and no state changes.       *)
(***************************************************************************)
\* the one tag of RemoteTags that parses to the sentinel is the malformed one
MalformedTags == {t \in RemoteTags : ~MatchesPattern(t)}

C16_MalformedTagIsNoUpdate ==
    /\ [][\A i \in Ids :
            FetchSucceeds(i) /\ cycles'[i].newVersion = Sentinel
                => /\ cycles'[i].pc = "returned"
                   /\ cycles'[i].log = <<"checking", "latest">>
                   /\ cycles'[i].saved = "none"
                   /\ triggered' = triggered
                   /\ file' = file
                   /\ lastTasmotaVersion' = lastTasmotaVersion]_vars
    /\ [][\A i \in Ids :
            /\ i \in DOMAIN cycles'
            /\ cycles[i].pc = "receiving"
            /\ cycles[i].statusCode = StatusOk
            /\ cycles'[i].statusCode = StatusOk
            /\ cycles'[i].pc \in {"returned", "trigger"}
            => cycles'[i].newVersion \in
                  {parseVersionString(t) : t \in RemoteTags} \ {Null}]_vars
    /\ [](\A t \in MalformedTags : parseVersionString(t) = Sentinel)

\* a cycle that fetched the malformed tag while (0,0,0) is the current version,
\* the case in which only strictness keeps the sentinel from being announced
C16_Witness ==
    /\ MalformedTags # {}
    /\ \E i \in Ids :
        /\ cycles[i].pc = "returned"
        /\ cycles[i].statusCode = StatusOk
        /\ cycles[i].newVersion = Sentinel
        /\ cycles[i].log = <<"checking", "latest">>
        /\ lastTasmotaVersion = Sentinel
        /\ triggered = <<>>

(***************************************************************************)
(* C17: every change of the in-memory version happens in the same step as  *)
(* a write attempt of that same version, so in every reachable state in    *)
(* which no write has failed and at least one update was confirmed the     *)
(* file content is the "v{major}.{minor}.{revision}" of the in-memory      *)
(* version.                                                                *)
(***************************************************************************)
\* this process confirmed an update and none of its writes failed
UpdateConfirmed == \E i \in Ids : cycles[i].saved = "written"

NoWriteFailed == \A i \in Ids : cycles[i].saved # "failed"

C17_FileMirrorsMemory ==
    /\ [][lastTasmotaVersion' # lastTasmotaVersion /\ run' = run
            => \E i \in Ids :
                  /\ cycles[i].saved = "none"
                  /\ cycles'[i].saved # "none"
                  /\ cycles'[i].newVersion = lastTasmotaVersion']_vars
    /\ [](UpdateConfirmed /\ NoWriteFailed
            => file = FileWith(FormatVersion(lastTasmotaVersion)))

\* two updates confirmed in one process, the file following the memory
C17_Witness ==
    /\ NoWriteFailed
    /\ Cardinality({i \in Ids : cycles[i].saved = "written"}) = 2
    /\ lastTasmotaVersion = Version(1, 0, 1)
    /\ file = FileWith(FormatVersion(Version(1, 0, 1)))

(***************************************************************************)
(* C18: within one process lifetime the in-memory version never decreases  *)
(* in the lexicographic order, over every interleaving of check cycles and *)
(* every sequence of fetched versions.                                     *)
(***************************************************************************)
C18_NeverDecreases ==
    [][run' = run => ~Less(lastTasmotaVersion', lastTasmotaVersion)]_vars

(***************************************************************************)
(* C19: the notifications of one process lifetime form a chain: the first  *)
(* call carries as old version the version loaded at start, every later    *)
(* call carries as old version the new version of the previous call, and   *)
(* every call has its new version strictly greater than its old version.   *)
(* (Stated for the calls that did not fail.)                               *)
(***************************************************************************)
C19_Chain ==
    /\ [](\A k \in DOMAIN Delivered :
            /\ Less(Delivered[k].old, Delivered[k].new)
            /\ k > 1 => Delivered[k].old = Delivered[k - 1].new)
    /\ [][triggered = <<>> /\ triggered' # <<>>
            => triggered'[1].old = loadTasmotaVersionFromFile(file)]_vars

(***************************************************************************)
(* C12: the update decision is true exactly when the new version is        *)
(* strictly greater than the old one in the lexicographic order on         *)
(* (major, minor, revision), for every pair of versions.                   *)
(***************************************************************************)
AsTuple(v) == <<v.major, v.minor, v.revision>>

\* n comes after o: at the first component in which they differ n is larger
LexGreater(n, o) ==
    \E k \in 1..3 :
        /\ AsTuple(n)[k] > AsTuple(o)[k]
        /\ \A j \in 1..(k - 1) : AsTuple(n)[j] = AsTuple(o)[j]

\* cycle i has compared the version it fetched
Compared(i) == cycles[i].pc \in {"trigger", "returned"} /\ cycles[i].newVersion # Null

C12_DecisionIsLexicographic ==
    \A i \in Ids :
        Compared(i) =>
            /\ cycles[i].pc = "trigger"
                  <=> LexGreater(cycles[i].newVersion, lastTasmotaVersion)
            /\ cycles[i].pc = "trigger"
                  <=> triggered = <<TriggerCall(i, cycles[i].newVersion, lastTasmotaVersion)>>

\* the claim's first pair: old (1,2,3), new (1,2,4), decided true and announced
C12_Witness ==
    \E i \in Ids :
        /\ Compared(i)
        /\ lastTasmotaVersion = Version(1, 2, 3)
        /\ cycles[i].newVersion = Version(1, 2, 4)
        /\ cycles[i].pc = "trigger"

\* its second pair: equal versions, decided false
C12_WitnessEqual ==
    \E i \in Ids :
        /\ Compared(i)
        /\ lastTasmotaVersion = Version(1, 2, 3)
        /\ cycles[i].newVersion = Version(1, 2, 3)
        /\ cycles[i].pc = "returned"

\* its third pair, (2,0,0) against (1,9,9), with the 9s scaled to the bound
C12_WitnessOlder ==
    \E i \in Ids :
        /\ Compared(i)
        /\ lastTasmotaVersion = Version(2, 0, 0)
        /\ cycles[i].newVersion = Version(1, MaxComponent, MaxComponent)
        /\ cycles[i].pc = "returned"

(***************************************************************************)
(* C13: for every triple v of non-negative integers parse(format(v)) = v:  *)
(* a version saved by one process is loaded unchanged by the next.         *)
(***************************************************************************)
C13_RoundTrip ==
    [][run' # run /\ file.exists => lastTasmotaVersion' = lastTasmotaVersion]_vars

\* the same for the versions whose components are all below 10^21
C13_RoundTripBelowE21 ==
    [][/\ run' # run
       /\ file.exists
       /\ \A k \in 1..3 : Len(AsTuple(lastTasmotaVersion)[k]) <= ExponentFrom
       => lastTasmotaVersion' = lastTasmotaVersion]_vars

(***************************************************************************)
(* C14: for every text that does not match v<digits>.<digits>.<digits>     *)
(* from its first to its last character the parse yields (0,0,0) without   *)
(* an error; a present but corrupt state file loads as (0,0,0).            *)
(***************************************************************************)
AllDigits(t, a, b) == a <= b /\ \A k \in a..b : IsDigit(t[k])

\* t is "v", digits, ".", digits, ".", digits and nothing else
WellFormed(t) ==
    \E i, j \in 1..Len(t) :
        /\ t[1] = "v" /\ t[i] = "." /\ t[j] = "."
        /\ AllDigits(t, 2, i - 1)
        /\ AllDigits(t, i + 1, j - 1)
        /\ AllDigits(t, j + 1, Len(t))

C14_MalformedIsSentinel ==
    /\ file.exists /\ ~WellFormed(file.text) => lastTasmotaVersion = Sentinel
    \* (the texts have no "0", so a well-formed one is the text of its version)
    /\ file.exists /\ WellFormed(file.text) => FormatVersion(lastTasmotaVersion) = file.text

\* a process constructed over a well-formed version followed by one more character
C14_Witness ==
    /\ run > 0
    /\ file = FileWith(<<"v", "1", ".", "1", ".", "1", "x">>)
    /\ lastTasmotaVersion = Sentinel

====
